---- MODULE Spec2Model ----
(***************************************************************************)
(* IGFinder2.0: retrieval of gene records from the Ensembl REST service    *)
(* (fetch_genes.py) and their classification as intronless / multi-exonic  *)
(* (IGFinder2.0.py), modelled as a state machine.                          *)
(*                                                                         *)
(* Four specifications share the variables and the actions:                *)
(*   SpecClassify  classify_genes applied to bounded inputs                *)
(*   SpecScan      one call of fetch_genes.genes_in_chrom                  *)
(*   SpecInfo      one call of fetch_genes.get_info                        *)
(*   Spec          one execution of the script IGFinder2.0.py, which runs  *)
(*                 the main of line 121 (line 155) and then, unless that   *)
(*                 one left through sys.exit, the main of line 232         *)
(*                 (line 252)                                              *)
(*                                                                         *)
(* Data: a gene id is an integer standing for an Ensembl stable id; an     *)
(* exon is an opaque token; a transcript is a record                       *)
(* [Exon |-> sequence of exons]; a gene record is                          *)
(* [id, Transcript]; a stub (overlap result) is [id]; a row of the table   *)
(* is [id, type].  The columns start, end, chr, biotype and length play no *)
(* part in any control decision and are left out of the rows.              *)
(***************************************************************************)
EXTENDS Integers, Sequences, FiniteSets, TLC

VARIABLES
    pc,           \* position of the program
    run,          \* 0: a single function call; 1: main of line 121; 2: main of line 232
    utr_file,     \* the file args.utr_db: [status, ids]
    args,         \* [stats, plots]: the command-line flags
    ensembl,      \* the remote database: gene id -> Transcript list
    utr_introns,  \* main: the exception set read from the file
    chrom_data,   \* fetch_all_genes: chromosomes still to scan, <<name, length>>
    length,       \* genes_in_chrom: its argument
    start,        \* genes_in_chrom: the loop variable of range(1, length, WINDOW_SIZE)
    genes,        \* genes_in_chrom: its accumulator all_genes
    queried,      \* history: the windows <<start, end>> requested by this call
    fetched,      \* history: per window, [ok, genes] as answered
    all_genes,    \* fetch_all_genes: accumulator; the argument of get_info
    rest,         \* get_info: what the iterator inside chunks_of has not yet yielded
    gene_info,    \* get_info: its accumulator all_info; main: gene_info
    calls,        \* history: the id list of every batch lookup of this call
    returned,     \* history: per batch, [outcome, records]
    df,           \* the classified table
    output,       \* the file args.output: <<>> if absent, <<table>> if written
    net,          \* requests issued by the current main: [assembly, window, batch],
                  \* and refused: its assembly GET has failed
    did           \* what the current main has done: [wrote, stats, plots]

vars == <<pc, run, utr_file, args, ensembl, utr_introns, chrom_data, length, start,
          genes, queried, fetched, all_genes, rest, gene_info, calls, returned, df,
          output, net, did>>

scanVars == <<length, start, genes, queried, fetched>>
infoVars == <<rest, gene_info, calls, returned>>
worldVars == <<utr_file, args, ensembl>>

-----------------------------------------------------------------------------
(* Bounds and program constants *)

MaxRecords == 3        \* SpecClassify: gene records in the input
MaxWindows == 2        \* SpecScan: whole multiples of WINDOW_SIZE in the chromosome length
MaxAnswer == 1         \* stubs in the answer to one overlap query
MaxStubs == 120        \* SpecInfo: gene stubs in the input

WINDOW_SIZE == 1000000
ChunkSize == 50

GeneIds == {1, 2}

Range(s) == {s[i] : i \in DOMAIN s}
Min(a, b) == IF a < b THEN a ELSE b
SeqsUpTo(S, n) == UNION {[1..k -> S] : k \in 0..n}

\* [g["id"] for g in chunk]
IdsOf(s) == [i \in DOMAIN s |-> s[i].id]

RECURSIVE Flatten(_)
Flatten(ss) == IF ss = <<>> THEN <<>> ELSE Head(ss) \o Flatten(Tail(ss))

\* transcripts of one and of two exons, and one without exons; the Transcript lists
\* of a gene record: up to two transcripts with exons, or the one without
Transcripts == {[Exon |-> <<"e1">>], [Exon |-> <<"e1", "e2">>]}
TranscriptLists == SeqsUpTo(Transcripts, 2) \cup {<<[Exon |-> <<>>]>>}
GeneRecords == {[id |-> g, Transcript |-> ts] : g \in GeneIds, ts \in TranscriptLists}

-----------------------------------------------------------------------------
(* IGFinder2.0.py: classification *)

is_intronlessAtMostOne(transcript) == Len(transcript.Exon) <= 1

\* len(transcript.get('Exon', [])) == 1
is_intronless(transcript) == Len(transcript.Exon) = 1

\* gene.get('Transcript', []): a stub has no Transcript key
TranscriptsOf(gene) ==
    IF "Transcript" \in DOMAIN gene THEN gene.Transcript ELSE <<>>

BranchReclassify(gene, utr) ==
    IF \E t \in Range(TranscriptsOf(gene)) : is_intronless(t)
    THEN IF gene.id \notin utr THEN "intronless" ELSE "multi-exonic"
    ELSE "multi-exonic"

\* the if / if / else of the loop body: the list the gene is appended to,
\* "none" when it is appended to neither
Branch(gene, utr) ==
    IF \E t \in Range(TranscriptsOf(gene)) : is_intronless(t)
    THEN IF gene.id \notin utr THEN "intronless" ELSE "none"
    ELSE "multi-exonic"

Row(gene, type) == [id |-> gene.id, type |-> type]

\* the for loop: <<intronless, multiexonic>> after the whole input
RECURSIVE ClassifyLoop(_, _, _, _)
ClassifyLoop(gi, utr, intronless, multiexonic) ==
    IF gi = <<>> THEN <<intronless, multiexonic>>
    ELSE LET gene == Head(gi)
             b == Branch(gene, utr)
         IN ClassifyLoop(Tail(gi), utr,
                IF b = "intronless" THEN Append(intronless, Row(gene, b)) ELSE intronless,
                IF b = "multi-exonic" THEN Append(multiexonic, Row(gene, b)) ELSE multiexonic)

DataFrameSwapped(intronless, multiexonic) == multiexonic \o intronless

\* pd.DataFrame(intronless + multiexonic, ...)
DataFrame(intronless, multiexonic) == intronless \o multiexonic

classify_genes(gi, utr) ==
    LET r == ClassifyLoop(gi, utr, <<>>, <<>>) IN DataFrame(r[1], r[2])

-----------------------------------------------------------------------------
(* SpecClassify: classify_genes on every input within the bounds *)

NoRequests == [assembly |-> 0, window |-> 0, batch |-> 0, refused |-> FALSE]
Nothing == [wrote |-> FALSE, stats |-> FALSE, plots |-> FALSE]

InitClassify ==
    /\ pc = "classify"
    /\ run = 0
    /\ utr_file = [status |-> "ok", ids |-> {}]
    /\ args = [stats |-> FALSE, plots |-> FALSE]
    /\ ensembl = [g \in GeneIds |-> <<>>]
    /\ utr_introns \in SUBSET GeneIds
    /\ chrom_data = <<>>
    /\ length = 0 /\ start = 1 /\ genes = <<>> /\ queried = <<>> /\ fetched = <<>>
    /\ all_genes = <<>>
    /\ rest = <<>> /\ calls = <<>> /\ returned = <<>>
    /\ gene_info \in SeqsUpTo(GeneRecords, MaxRecords)
    /\ df = <<>>
    /\ output = <<>>
    /\ net = NoRequests
    /\ did = Nothing

Classify ==
    /\ pc = "classify"
    /\ df' = classify_genes(gene_info, utr_introns)
    /\ pc' = "classified"
    /\ UNCHANGED <<run, worldVars, utr_introns, chrom_data, scanVars, all_genes,
                   infoVars, output, net, did>>

NextClassify == Classify

SpecClassify == InitClassify /\ [][NextClassify]_vars

-----------------------------------------------------------------------------
(* Properties of classify_genes (SpecClassify) *)

\* a gene record with at least one transcript of exactly one exon
HasSingleExonTranscript(gene) ==
    \E i \in DOMAIN TranscriptsOf(gene) : Len(TranscriptsOf(gene)[i].Exon) = 1

\* rows of the table with this id and category
RowsOf(g, type) ==
    Cardinality({j \in DOMAIN df : df[j].id = g /\ df[j].type = type})

\* input records with this id that have (single = TRUE) or lack a single-exon transcript
RecordsOf(g, single) ==
    Cardinality({i \in DOMAIN gene_info :
                    gene_info[i].id = g /\ HasSingleExonTranscript(gene_info[i]) = single})

ExceptedRecords ==
    {i \in DOMAIN gene_info :
        gene_info[i].id \in utr_introns /\ HasSingleExonTranscript(gene_info[i])}

\* C1 as claimed: every record with a single-exon transcript whose id is in the
\* exception set gets a multi-exonic row, so the table has one row per input record.
C1_Reclassified ==
    pc = "classified" =>
        /\ \A g \in utr_introns :
              /\ RowsOf(g, "multi-exonic") = RecordsOf(g, TRUE) + RecordsOf(g, FALSE)
              /\ RowsOf(g, "intronless") = 0
        /\ Len(df) = Len(gene_info)

\* C1 as amended: a record with a single-exon transcript whose id is in the exception
\* set gets no row at all (it is removed, not reclassified); every other record gets
\* exactly one row, so the table has one row per input record that is not excepted.
C1_Removed ==
    pc = "classified" =>
        /\ \A g \in utr_introns :
              /\ RowsOf(g, "multi-exonic") = RecordsOf(g, FALSE)
              /\ RowsOf(g, "intronless") = 0
        /\ Len(df) = Len(gene_info) - Cardinality(ExceptedRecords)

C1_Witness ==
    /\ pc = "classified"
    /\ ExceptedRecords # {}
    /\ Len(df) < Len(gene_info)

\* C3: a record with a single-exon transcript and an id outside the exception set is
\* output as intronless; a record without any single-exon transcript is output as
\* multi-exonic (never as intronless), whether or not its id is in the exception set.
C3_Categories ==
    pc = "classified" =>
        \A g \in GeneIds :
            /\ g \notin utr_introns => RowsOf(g, "intronless") = RecordsOf(g, TRUE)
            /\ RowsOf(g, "intronless") <= RecordsOf(g, TRUE)
            /\ RowsOf(g, "multi-exonic") >= RecordsOf(g, FALSE)

C3_Witness ==
    /\ pc = "classified"
    /\ \E i, j, k \in DOMAIN gene_info :
          /\ gene_info[i].id \notin utr_introns /\ HasSingleExonTranscript(gene_info[i])
          /\ gene_info[j].id \in utr_introns /\ ~HasSingleExonTranscript(gene_info[j])
          /\ gene_info[j].Transcript # <<>>
          /\ gene_info[k].Transcript = <<>>
    /\ \E r \in DOMAIN df : df[r].type = "intronless"
    /\ \E r \in DOMAIN df : df[r].type = "multi-exonic" /\ df[r].id \in utr_introns

\* C4: the table lists the intronless rows first, in input order, then the multi-exonic
\* rows, in input order; no multi-exonic row precedes an intronless row.
C4_Ordering ==
    pc = "classified" =>
        LET IsI(r) == r.type = "intronless"
            IsM(r) == r.type = "multi-exonic"
            InI(g) == HasSingleExonTranscript(g) /\ g.id \notin utr_introns
            InM(g) == ~HasSingleExonTranscript(g)
        IN /\ \A i, j \in DOMAIN df : (IsM(df[i]) /\ IsI(df[j])) => j < i
           /\ IdsOf(SelectSeq(df, IsI)) = IdsOf(SelectSeq(gene_info, InI))
           /\ IdsOf(SelectSeq(df, IsM)) = IdsOf(SelectSeq(gene_info, InM))

\* the input [G1 intronless, G2 multi-exonic, G3 intronless] and the table [G1, G3, G2]
C4_Witness ==
    /\ pc = "classified"
    /\ Len(gene_info) = 3
    /\ gene_info[1].id \notin utr_introns /\ HasSingleExonTranscript(gene_info[1])
    /\ ~HasSingleExonTranscript(gene_info[2])
    /\ gene_info[3].id \notin utr_introns /\ HasSingleExonTranscript(gene_info[3])
    /\ gene_info[2].id # gene_info[3].id
    /\ IdsOf(df) = <<gene_info[1].id, gene_info[3].id, gene_info[2].id>>

-----------------------------------------------------------------------------
(* fetch_genes.py: genes_in_chrom *)

Stubs == {[id |-> g] : g \in GeneIds}

\* what the service may answer to one overlap query
OverlapAnswers == SeqsUpTo(Stubs, MaxAnswer)

\* range(1, length, WINDOW_SIZE) yields s, or is exhausted
ScanPc(s, len) == IF s < len THEN "scan" ELSE "scan_done"

\* end = min(start + WINDOW_SIZE - 1, length)
WindowEnd(s, len) == Min(s + WINDOW_SIZE - 1, len)

\* all_genes.extend(genes)
Extend(acc, more) == acc \o more

ExceptWindowAbort(s, len) == "scan_done"

\* except Exception: logging.warning(...); continue -- on to the next value of the range
ExceptWindow(s, len) == ScanPc(s, len)

\* The call: all_genes = [] and the range object of the for loop.
EnterScan ==
    /\ pc = "scan_call"
    /\ genes' = <<>>
    /\ start' = 1
    /\ queried' = <<>>
    /\ fetched' = <<>>
    /\ pc' = ScanPc(start', length)
    /\ UNCHANGED <<run, worldVars, utr_introns, chrom_data, length, all_genes, infoVars,
                   df, output, net, did>>

\* One iteration of the for loop: the overlap query of the window that begins at start.
\* ensembl_get raises on a non-success status (raise_for_status) and requests.get may
\* raise by itself; either way the except clause of genes_in_chrom takes over.
WindowQuery ==
    /\ pc = "scan"
    /\ \E ok \in BOOLEAN, answer \in OverlapAnswers :
          /\ ok \/ answer = <<>>
          /\ queried' = Append(queried, <<start, WindowEnd(start, length)>>)
          /\ fetched' = Append(fetched, [ok |-> ok, genes |-> answer])
          /\ genes' = IF ok THEN Extend(genes, answer) ELSE genes
          /\ start' = start + WINDOW_SIZE
          /\ pc' = IF ok THEN ScanPc(start', length) ELSE ExceptWindow(start', length)
    /\ net' = [net EXCEPT !.window = @ + 1]
    /\ UNCHANGED <<run, worldVars, utr_introns, chrom_data, length, all_genes, infoVars,
                   df, output, did>>

\* chromosome lengths: around every multiple of the window size
Offsets == {0, 1, 2, WINDOW_SIZE \div 2, WINDOW_SIZE - 1}
ScanLengths == {k * WINDOW_SIZE + d : k \in 0..MaxWindows, d \in Offsets} \ {0}

InitScan ==
    /\ run = 0
    /\ utr_file = [status |-> "ok", ids |-> {}]
    /\ args = [stats |-> FALSE, plots |-> FALSE]
    /\ ensembl = [g \in GeneIds |-> <<>>]
    /\ utr_introns = {}
    /\ chrom_data = <<>>
    /\ length \in ScanLengths
    /\ start = 1 /\ genes = <<>> /\ queried = <<>> /\ fetched = <<>>
    /\ pc = "scan_call"
    /\ all_genes = <<>>
    /\ rest = <<>> /\ calls = <<>> /\ returned = <<>> /\ gene_info = <<>>
    /\ df = <<>>
    /\ output = <<>>
    /\ net = NoRequests
    /\ did = Nothing

NextScan == EnterScan \/ WindowQuery

SpecScan == InitScan /\ [][NextScan]_vars

-----------------------------------------------------------------------------
(* Properties of genes_in_chrom (SpecScan) *)

\* the windows of [1, L] for window size W: [1 + k*W, min((k+1)*W, L)], 1 + k*W <= L
PartitionOf(L, W) ==
    [k \in 1..((L + W - 1) \div W) |-> <<1 + (k - 1) * W, Min(k * W, L)>>]

\* C2 as claimed: for L >= 1 the scan queries exactly the windows
\* [1 + k*W, min((k+1)*W, L)] with 1 + k*W <= L, in increasing k, so every coordinate
\* of [1, L] is in exactly one queried window and the last window ends at L.
C2_Partition ==
    (pc = "scan_done" /\ length >= 1) =>
        /\ queried = PartitionOf(length, WINDOW_SIZE)
        /\ queried # <<>>
        /\ queried[Len(queried)][2] = length

\* the windows the loop visits: the starts 1, 1 + W, ... below L
VisitedWindows(L, W) ==
    [k \in 1..((L - 1 + W - 1) \div W) |-> <<1 + (k - 1) * W, Min(k * W, L)>>]

Answered == SelectSeq(fetched, LAMBDA f : f.ok)

-----------------------------------------------------------------------------
(* fetch_genes.py: chunks_of, get_lookup_batch, get_info *)

headShort(s, n) == SubSeq(s, 1, Min(n - 1, Len(s)))

\* head(iterable, n): islice(iterator, n) -- the next n items, fewer at the end
head(s, n) == SubSeq(s, 1, Min(n, Len(s)))

\* the iterator after head has consumed k items of it
Consumed(s, k) == SubSeq(s, k + 1, Len(s))

\* chunks_of: next_ = list(head(iterator, chunk_size)); yield it if it is not empty
InfoPc(r) == IF head(r, ChunkSize) # <<>> THEN "info" ELSE "info_done"

RECURSIVE Distinct(_, _)
Distinct(ids, seen) ==
    IF ids = <<>> THEN <<>>
    ELSE IF Head(ids) \in seen THEN Distinct(Tail(ids), seen)
         ELSE <<Head(ids)>> \o Distinct(Tail(ids), seen \cup {Head(ids)})

Reverse(s) == [i \in DOMAIN s |-> s[Len(s) + 1 - i]]

\* The JSON object the service answers to POST /lookup/id with expand: one entry per
\* id asked for, in an order of the service's choosing; data.values() keeps that order.
LookupAnswers(ids) ==
    LET vals == [i \in DOMAIN Distinct(ids, {}) |->
                    [id |-> Distinct(ids, {})[i], Transcript |-> ensembl[Distinct(ids, {})[i]]]]
    IN {vals, Reverse(vals)}

get_lookup_batchUnchecked(status_ok, json) == json

\* get_lookup_batch: {} when not response.ok, else response.json()
get_lookup_batch(status_ok, json) == IF status_ok THEN json ELSE <<>>

\* The call: fields, all_info = [] and the iterator of chunks_of.
EnterInfo ==
    /\ pc = "info_call"
    /\ gene_info' = <<>>
    /\ rest' = all_genes
    /\ calls' = <<>>
    /\ returned' = <<>>
    /\ pc' = InfoPc(rest')
    /\ UNCHANGED <<run, worldVars, utr_introns, chrom_data, scanVars, all_genes, df,
                   output, net, did>>

\* One iteration of the for loop of get_info: the lookup of the next chunk.  The POST
\* either raises (the except clause logs, sleeps and goes on), or answers with a
\* non-success status, or answers with the records.
LookupBatch ==
    /\ pc = "info"
    /\ LET chunk == head(rest, ChunkSize)
           ids == IdsOf(chunk)
       IN /\ \E outcome \in {"raise", "not_ok", "ok"}, json \in LookupAnswers(ids) :
                LET data == IF outcome = "raise" THEN <<>>
                            ELSE get_lookup_batch(outcome = "ok", json)
                IN /\ gene_info' = Extend(gene_info, data)
                   /\ returned' = Append(returned, [outcome |-> outcome,
                                     records |-> IF outcome = "ok" THEN json ELSE <<>>])
          /\ calls' = Append(calls, ids)
          /\ rest' = Consumed(rest, Len(chunk))
          /\ pc' = InfoPc(rest')
    /\ net' = [net EXCEPT !.batch = @ + 1]
    /\ UNCHANGED <<run, worldVars, utr_introns, chrom_data, scanVars, all_genes, df,
                   output, did>>

\* the inputs of SpecInfo: n stubs, their ids all distinct, or every id twice in a row
\* (a gene that overlaps two windows is returned by both), the pairs straddling the
\* chunk boundaries
StubInputs ==
    {[i \in 1..n |-> [id |-> i]] : n \in 0..MaxStubs}
        \cup {[i \in 1..n |-> [id |-> (i \div 2) + 1]] : n \in 0..MaxStubs}

InitInfo ==
    /\ pc = "info_call"
    /\ run = 0
    /\ utr_file = [status |-> "ok", ids |-> {}]
    /\ args = [stats |-> FALSE, plots |-> FALSE]
    /\ ensembl = [g \in 1..MaxStubs |-> <<[Exon |-> <<"e1">>]>>]
    /\ utr_introns = {}
    /\ chrom_data = <<>>
    /\ length = 0 /\ start = 1 /\ genes = <<>> /\ queried = <<>> /\ fetched = <<>>
    /\ all_genes \in StubInputs
    /\ rest = <<>> /\ calls = <<>> /\ returned = <<>> /\ gene_info = <<>>
    /\ df = <<>>
    /\ output = <<>>
    /\ net = NoRequests
    /\ did = Nothing

NextInfo == EnterInfo \/ LookupBatch

SpecInfo == InitInfo /\ [][NextInfo]_vars

-----------------------------------------------------------------------------
(* Properties of get_info (SpecInfo) *)

CeilDiv(n, d) == (n + d - 1) \div d

\* C5: n stubs give exactly ceil(n/50) batch lookups (none for n = 0); every batch but
\* possibly the last has exactly 50 ids, the last has 1 to 50, and the id lists of the
\* batches, concatenated in call order, are the ids of the input.
C5_Batches ==
    pc = "info_done" =>
        /\ Len(calls) = CeilDiv(Len(all_genes), 50)
        /\ \A b \in DOMAIN calls :
              /\ b < Len(calls) => Len(calls[b]) = 50
              /\ Len(calls[b]) \in 1..50
        /\ Flatten(calls) = IdsOf(all_genes)

\* 120 stubs: lookups of 50, 50 and 20 ids
C5_Witness ==
    /\ pc = "info_done"
    /\ Len(all_genes) = 120
    /\ [b \in DOMAIN calls |-> Len(calls[b])] = <<50, 50, 20>>

\* the k-th chunk of ChunkSize ids of the input
ChunkIds(k) ==
    SubSeq(IdsOf(all_genes), (k - 1) * ChunkSize + 1, Min(k * ChunkSize, Len(all_genes)))

Succeeded == SelectSeq(returned, LAMBDA r : r.outcome = "ok")

\* every batch looked up exactly once, later batches included, and the result is
\* the records of the successful batches, in batch order
LookedUpOnce ==
    /\ calls = [k \in 1..CeilDiv(Len(all_genes), ChunkSize) |-> ChunkIds(k)]
    /\ Len(returned) = Len(calls)
    /\ gene_info = Flatten([i \in DOMAIN Succeeded |-> Succeeded[i].records])

\* C7 as claimed: each batch is looked up exactly once; a batch whose lookup raises or
\* answers a non-success status contributes no records and its genes never appear in
\* the result; the result is the records of the successful batches, in batch order.
C7_FailedBatchGenesAbsent ==
    pc = "info_done" =>
        /\ LookedUpOnce
        /\ \A b \in DOMAIN returned :
              returned[b].outcome # "ok" =>
                  \A g \in Range(calls[b]) : g \notin Range(IdsOf(gene_info))

\* C7 as amended: the same, except that a gene of a failed batch can appear in the
\* result, but only through a batch that holds the same id and whose lookup succeeded.
C7_FailedBatchContributesNothing ==
    pc = "info_done" =>
        /\ LookedUpOnce
        /\ \A b \in DOMAIN returned :
              returned[b].outcome # "ok" =>
                  \A g \in Range(calls[b]) :
                      g \in Range(IdsOf(gene_info)) =>
                          \E c \in DOMAIN returned :
                              returned[c].outcome = "ok" /\ g \in Range(calls[c])

\* three batches, the first raising, the third refused, and the last gene of the first
\* batch returned by the second
C7_Witness ==
    /\ pc = "info_done"
    /\ Len(returned) = 3
    /\ returned[1].outcome = "raise"
    /\ returned[2].outcome = "ok"
    /\ returned[3].outcome = "not_ok"
    /\ gene_info = returned[2].records
    /\ calls[1][ChunkSize] \in Range(IdsOf(gene_info))

-----------------------------------------------------------------------------
(* fetch_genes.py: chromosomes_info;  IGFinder2.0.py: fetch_all_genes, the two mains *)

\* [str(i) for i in range(1, 23)]
valid_chroms == {"1", "2", "3", "4", "5", "6", "7", "8", "9", "10", "11", "12", "13",
                 "14", "15", "16", "17", "18", "19", "20", "21", "22"}

\* what the service may answer to GET /info/assembly: its top_level_region list
Regions ==
    {[name |-> n, length |-> l, coord_system |-> c] :
        n \in {"1", "2", "X"},
        l \in {WINDOW_SIZE, WINDOW_SIZE + 2},
        c \in {"chromosome", "scaffold"}}
AssemblyAnswers == SeqsUpTo(Regions, 2)

\* the dict comprehension of chromosomes_info, as the sequence of its items: a name
\* met again keeps its place and takes the later length
RECURSIVE DictItems(_, _)
DictItems(regions, items) ==
    IF regions = <<>> THEN items
    ELSE LET r == Head(regions)
             at == {i \in DOMAIN items : items[i][1] = r.name}
         IN DictItems(Tail(regions),
                IF r.coord_system # "chromosome" THEN items
                ELSE IF at = {} THEN Append(items, <<r.name, r.length>>)
                ELSE [i \in DOMAIN items |->
                         IF i \in at THEN <<r.name, r.length>> ELSE items[i]])

chromosomes_info(regions) == DictItems(regions, <<>>)

\* chrom_data = {k: v for k, v in chrom_data.items() if k in valid_chroms}
Autosomes(items) == SelectSeq(items, LAMBDA kv : kv[1] \in valid_chroms)

\* main of line 121, up to the try block's first statement: the isfile test and
\* read_csv.  A missing file ends the script (sys.exit raises SystemExit, which no
\* handler here catches); a file that cannot be read or parsed raises inside the try
\* block, the handler of line 152 logs it and main returns.
Main1Start ==
    /\ pc = "main1"
    /\ CASE utr_file.status = "missing" ->
                /\ pc' = "exit"
                /\ UNCHANGED utr_introns
         [] utr_file.status = "unreadable" ->
                /\ pc' = "main2"
                /\ UNCHANGED utr_introns
         [] OTHER ->
                /\ utr_introns' = utr_file.ids
                /\ pc' = "assembly"
    /\ UNCHANGED <<run, worldVars, chrom_data, scanVars, all_genes, infoVars, df,
                   output, net, did>>

\* After the main of line 121 has returned the script goes on: it defines the main of
\* line 232 and calls it at line 252.
ScriptContinues ==
    /\ pc = "main2"
    /\ run' = 2
    /\ pc' = "assembly"
    /\ utr_introns' = {}
    /\ chrom_data' = <<>>
    /\ length' = 0 /\ start' = 1 /\ genes' = <<>> /\ queried' = <<>> /\ fetched' = <<>>
    /\ all_genes' = <<>>
    /\ rest' = <<>> /\ gene_info' = <<>> /\ calls' = <<>> /\ returned' = <<>>
    /\ df' = <<>>
    /\ net' = NoRequests
    /\ did' = Nothing
    /\ UNCHANGED <<worldVars, output>>

AssemblyFailureRecovered(r) == "chroms"

\* Where an exception of fetch_all_genes lands: neither chromosomes_info nor
\* fetch_all_genes has a handler; the main of line 121 catches it at line 152 and
\* returns, the main of line 232 has no handler and the script dies.
AssemblyFailure(r) == IF r = 1 THEN "main2" ELSE "crashed"

\* fetch_all_genes, lines 44-51: the assembly GET through ensembl_get, which raises on
\* a non-success status, and the filter on the chromosome names.
Assembly ==
    /\ pc = "assembly"
    /\ all_genes' = <<>>
    /\ \E ok \in BOOLEAN, answer \in AssemblyAnswers :
          /\ ok \/ answer = <<>>
          /\ net' = [net EXCEPT !.assembly = @ + 1, !.refused = ~ok]
          /\ IF ok
             THEN /\ chrom_data' = Autosomes(chromosomes_info(answer))
                  /\ pc' = "chroms"
             ELSE /\ chrom_data' = <<>>
                  /\ pc' = AssemblyFailure(run)
    /\ UNCHANGED <<run, worldVars, utr_introns, scanVars, infoVars, df, output, did>>

\* fetch_all_genes, line 52: the next chromosome, or the return of all_genes -- to
\* get_info in the main of line 121, to classify_genes in the main of line 232.
NextChrom ==
    /\ pc = "chroms"
    /\ IF chrom_data # <<>>
       THEN /\ length' = Head(chrom_data)[2]
            /\ chrom_data' = Tail(chrom_data)
            /\ pc' = "scan_call"
       ELSE /\ pc' = IF run = 1 THEN "info_call" ELSE "classify2"
            /\ UNCHANGED <<length, chrom_data>>
    /\ UNCHANGED <<run, worldVars, utr_introns, start, genes, queried, fetched,
                   all_genes, infoVars, df, output, net, did>>

\* fetch_all_genes, lines 54-56: genes_in_chrom has returned; all_genes += genes
ScanReturn ==
    /\ pc = "scan_done"
    /\ run # 0
    /\ all_genes' = Extend(all_genes, genes)
    /\ pc' = "chroms"
    /\ UNCHANGED <<run, worldVars, utr_introns, chrom_data, scanVars, infoVars, df,
                   output, net, did>>

WritesTableAlways(info, table) == TRUE

\* main of line 121, lines 134-141: the two early returns before to_csv
WritesTable(info, table) == info # <<>> /\ table # <<>>

\* main of line 121, lines 134-151, after get_info has returned: the early returns,
\* classify_genes, to_csv and the optional statistics and plots.  An exception of
\* these is caught at line 152; main returns either way.
Main1Finish ==
    /\ pc = "info_done"
    /\ run = 1
    /\ LET table == IF gene_info = <<>> THEN <<>>
                    ELSE classify_genes(gene_info, utr_introns)
       IN /\ df' = table
          /\ IF WritesTable(gene_info, table)
             THEN /\ output' = <<table>>
                  /\ did' = [wrote |-> TRUE, stats |-> args.stats, plots |-> args.plots]
             ELSE UNCHANGED <<output, did>>
    /\ pc' = "main2"
    /\ UNCHANGED <<run, worldVars, utr_introns, chrom_data, scanVars, all_genes,
                   infoVars, net>>

\* main of line 232, lines 238-250, after fetch_all_genes has returned: classify_genes
\* on the stubs themselves (no Transcript key, so the exception argument, here the
\* path args.utr_db, is never consulted), save_results, then generate_statistics or
\* plot_gene_distributions, which both die on the column gene_type the table lacks.
Main2Finish ==
    /\ pc = "classify2"
    /\ run = 2
    /\ df' = classify_genes(all_genes, {})
    /\ output' = <<df'>>
    /\ did' = [wrote |-> TRUE, stats |-> args.stats, plots |-> ~args.stats /\ args.plots]
    /\ pc' = IF args.stats \/ args.plots THEN "crashed" ELSE "finished"
    /\ UNCHANGED <<run, worldVars, utr_introns, chrom_data, scanVars, all_genes,
                   infoVars, net>>

\* the remote database of the script runs: every gene has one transcript, of one or
\* of two exons
ScriptTranscriptLists == {<<[Exon |-> <<"e1">>]>>, <<[Exon |-> <<"e1", "e2">>]>>}

UtrFiles ==
    {[status |-> "missing", ids |-> {}], [status |-> "unreadable", ids |-> {}]}
        \cup {[status |-> "ok", ids |-> S] : S \in SUBSET GeneIds}

Init ==
    /\ pc = "main1"
    /\ run = 1
    /\ utr_file \in UtrFiles
    /\ args \in [stats : BOOLEAN, plots : BOOLEAN]
    /\ ensembl \in [GeneIds -> ScriptTranscriptLists]
    /\ utr_introns = {}
    /\ chrom_data = <<>>
    /\ length = 0 /\ start = 1 /\ genes = <<>> /\ queried = <<>> /\ fetched = <<>>
    /\ all_genes = <<>>
    /\ rest = <<>> /\ calls = <<>> /\ returned = <<>> /\ gene_info = <<>>
    /\ df = <<>>
    /\ output = <<>>
    /\ net = NoRequests
    /\ did = Nothing

Next ==
    \/ Main1Start
    \/ Assembly
    \/ NextChrom
    \/ EnterScan
    \/ WindowQuery
    \/ ScanReturn
    \/ EnterInfo
    \/ LookupBatch
    \/ Main1Finish
    \/ ScriptContinues
    \/ Main2Finish

Spec == Init /\ [][Next]_vars

-----------------------------------------------------------------------------
(* Properties of the script (Spec) *)

\* C8 as claimed: with the exception file missing or unreadable, no execution of the
\* script ever issues a request (assembly GET, window query, batch lookup) and no
\* output table is written.
C8_NoNetworkWithoutUtrFile ==
    utr_file.status # "ok" => (net = NoRequests /\ output = <<>>)

C10_NoEmptyTable ==
    run = 1 =>
        /\ did.wrote => (output = <<df>> /\ Len(df) >= 1 /\ gene_info # <<>>)
        /\ (pc = "main2" /\ (gene_info = <<>> \/ df = <<>>)) =>
              (~did.wrote /\ ~did.stats /\ ~did.plots /\ output = <<>>)
        /\ (did.stats \/ did.plots) => did.wrote

\* every record looked up is excepted: the table is empty and nothing is written
C10_Witness ==
    /\ run = 1
    /\ pc = "main2"
    /\ gene_info # <<>>
    /\ df = <<>>
    /\ output = <<>>
    /\ args.stats /\ args.plots

====
